---- MODULE Spec2Model ----
(***************************************************************************)
(* Model of zeroband/training/checkpoint.py and the state-dict side of     *)
(* zeroband/training/attribution.py.                                        *)
(*                                                                         *)
(*   Spec       save_ckpt_for_rollout on every rank of the job, with the   *)
(*              collective gather, the background thread and the output    *)
(*              directories;                                               *)
(*   SpecLocal  save_checkpoint_fsdp_state of the processes of a job that  *)
(*              spans several nodes;                                       *)
(*   SpecResume save_checkpoint_fsdp_state and load_checkpoint_fsdp_state  *)
(*              of a process that trains, saves, restarts and loads;       *)
(*   SpecRestore  load_checkpoint_fsdp_state of a process whose objects    *)
(*              differ from those of the run that wrote the checkpoint;    *)
(*   SpecWrapper  AttributionWrapper.load_state_dict on any supplied       *)
(*              mapping;                                                   *)
(*   SpecSnapshot  the tensors an asynchronous save_ckpt_for_rollout hands *)
(*              to its thread, while the caller goes on training;          *)
(*   SpecProtocol  forward and get_attribution_weights of an               *)
(*              AttributionWrapper, in any order.                          *)
(*                                                                         *)
(* Strings are sequences of one-character strings, so that startswith and  *)
(* the slices key[6:] and key[17:] are computed as Python computes them.   *)
(***************************************************************************)
EXTENDS Integers, Sequences, FiniteSets, TLC

(* ------------------------------ bounds -------------------------------- *)
NumRanks == 2      \* processes of the job in Spec (ranks 0 .. NumRanks-1)
MaxKeys == 2       \* tensors in the base model's state
MaxCalls == 2      \* save_ckpt_for_rollout calls per rank
NumDirs == 2       \* output directories a call may name
NumProcs == 3      \* processes of the job in SpecLocal
MaxStep == 1       \* largest training_progress.step in SpecLocal
MaxOpts == 2       \* optimizers a process passes to save and load
MaxRestarts == 1   \* restarts of a process in SpecLocal
MaxUpdates == 2    \* in-place updates of a parameter in SpecSnapshot
MaxOps == 4        \* calls made on an AttributionWrapper in SpecProtocol

Ranks == 0 .. (NumRanks - 1)
Dirs == 1 .. NumDirs
CallIds == 1 .. MaxCalls

(* ------------------------------ strings ------------------------------- *)
S_model == <<"m", "o", "d", "e", "l">>
S_attribution_head ==
    <<"a", "t", "t", "r", "i", "b", "u", "t", "i", "o", "n", "_", "h", "e", "a", "d">>
S_dot == <<".">>
S_w == <<"w">>
S_projection_weight ==
    <<"p", "r", "o", "j", "e", "c", "t", "i", "o", "n", ".", "w", "e", "i", "g", "h", "t">>

ModelPrefix == S_model \o S_dot                  \* "model."
HeadPrefix == S_attribution_head \o S_dot        \* "attribution_head."

\* str.startswith
StartsWith(s, p) == Len(s) >= Len(p) /\ SubSeq(s, 1, Len(p)) = p

\* the slice s[n:]
\* (faulty variant: the slice s[-1:])
DropChars_LastOnly(s, n) == SubSeq(s, Len(s), Len(s))
DropChars(s, n) == SubSeq(s, n + 1, Len(s))

ModelPrefixLen == 6
HeadPrefixLen == 17

(* --------------------------- ordered dicts ---------------------------- *)
\* A Python dict is a sequence of <<key, value>> pairs with distinct keys,
\* in insertion order.
DictKeys(d) == {d[i][1] : i \in 1 .. Len(d)}
DictHas(d, k) == \E i \in 1 .. Len(d) : d[i][1] = k
DictGet(d, k) == d[CHOOSE i \in 1 .. Len(d) : d[i][1] = k][2]
\* d[k] = v : overwrite in place, or append
DictSet(d, k, v) ==
    IF DictHas(d, k)
    THEN [i \in 1 .. Len(d) |-> IF d[i][1] = k THEN <<k, v>> ELSE d[i]]
    ELSE Append(d, <<k, v>>)
RECURSIVE DictUpdate(_, _)
\* d.update(e)
DictUpdate(d, e) ==
    IF e = <<>> THEN d
    ELSE DictUpdate(DictSet(d, Head(e)[1], Head(e)[2]), Tail(e))
\* module.state_dict(prefix=p) of a module whose own state is d
\* (faulty variant: the prefix is not added)
WithPrefix_Bare(p, d) == d
WithPrefix(p, d) == [i \in 1 .. Len(d) |-> <<p \o d[i][1], d[i][2]>>]

(* ------------------------------ tensors ------------------------------- *)
\* A tensor value: which parameter it holds (name), whether it is a DTensor
\* shard or a plain full tensor, its dtype and its device.
SrcDtype == "float32"
TargetDtype == "bfloat16"
Tensor(name, kind) == [name |-> name, kind |-> kind, dtype |-> SrcDtype, device |-> "cuda"]
IsDTensor(v) == v.kind = "DTensor"
\* value.to(dtype)
\* (faulty variant: the cast is left out)
CastTo_Skip(v, dtype) == v
CastTo(v, dtype) == [v EXCEPT !.dtype = dtype]
\* value.full_tensor()
FullTensor(v) == [v EXCEPT !.kind = "Tensor"]
\* value.to("cpu", non_blocking=True)
ToCpu(v) == [v EXCEPT !.device = "cpu"]

(* ------------------------------- models ------------------------------- *)
\* Names a base model may give its tensors.  The second and third are names
\* a base model is free to use although they begin like the wrapper's
\* prefixes ("model.w" is what a HuggingFace causal LM uses).
BaseKeyOrder == << S_w, ModelPrefix \o S_w, HeadPrefix \o S_w >>

RECURSIVE SortedSeq(_)
SortedSeq(S) ==
    IF S = {} THEN <<>>
    ELSE LET m == CHOOSE x \in S : \A y \in S : x <= y
         IN <<m>> \o SortedSeq(S \ {m})

\* the base model's state_dict(): its tensors in registration order
BaseStateDicts ==
    { [i \in 1 .. Len(ix) |-> <<BaseKeyOrder[ix[i]], Tensor(BaseKeyOrder[ix[i]], kinds[ix[i]])>>] :
        ix \in { SortedSeq(S) : S \in { T \in SUBSET (1 .. Len(BaseKeyOrder)) :
                                            T # {} /\ Cardinality(T) <= MaxKeys } },
        kinds \in [1 .. Len(BaseKeyOrder) -> {"DTensor", "Tensor"}] }

\* AttributionHead: one nn.Linear without bias, named projection
HeadStateDict == << <<S_projection_weight, Tensor(S_projection_weight, "Tensor")>> >>

Models == [composite : BOOLEAN, base : BaseStateDicts]

\* AttributionWrapper.state_dict (prefix = '')
AttributionWrapper_state_dict(m) ==
    LET destination == <<>>
        model_state == WithPrefix(ModelPrefix, m.base)
        d1 == DictUpdate(destination, model_state)
        attribution_state == WithPrefix(HeadPrefix, HeadStateDict)
    IN DictUpdate(d1, attribution_state)

\* model.state_dict() as save_ckpt_for_rollout calls it
StateDictOf(m) == IF m.composite THEN AttributionWrapper_state_dict(m) ELSE m.base


(* ------------- save_ckpt_for_rollout: key filtering (pure) ------------- *)
RECURSIVE FilterLoop(_, _, _)
\* the loop over full_state_dict.items() of the AttributionWrapper branch;
\* acc = [state_dict, original_key_mapping]
FilterLoop(items, i, acc) ==
    IF i > Len(items) THEN acc
    ELSE LET original_key == items[i][1]
             value == items[i][2]
         IN IF StartsWith(original_key, ModelPrefix)
            THEN LET filtered_key == DropChars(original_key, ModelPrefixLen)
                 IN FilterLoop(items, i + 1,
                        [state_dict |-> DictSet(acc.state_dict, filtered_key, value),
                         original_key_mapping |->
                             DictSet(acc.original_key_mapping, filtered_key, original_key)])
            ELSE IF ~StartsWith(original_key, HeadPrefix)
            THEN FilterLoop(items, i + 1,
                        [state_dict |-> DictSet(acc.state_dict, original_key, value),
                         original_key_mapping |->
                             DictSet(acc.original_key_mapping, original_key, original_key)])
            ELSE FilterLoop(items, i + 1, acc)

\* lines 124-146: the retained state_dict and original_key_mapping
\* (faulty variant: the AttributionWrapper branch is left out)
FilterStateDict_NoFilter(isWrapper, full_state_dict) ==
    [state_dict |-> full_state_dict,
     original_key_mapping |->
         [i \in 1 .. Len(full_state_dict) |->
             <<full_state_dict[i][1], full_state_dict[i][1]>>]]
FilterStateDict(isWrapper, full_state_dict) ==
    IF isWrapper
    THEN FilterLoop(full_state_dict, 1, [state_dict |-> <<>>, original_key_mapping |-> <<>>])
    ELSE [state_dict |-> full_state_dict,
          original_key_mapping |->
              [i \in 1 .. Len(full_state_dict) |->
                  <<full_state_dict[i][1], full_state_dict[i][1]>>]]


(* ---------------------- load_state_dict (pure) ------------------------- *)
\* the keys of d, in order, that e does not have
KeysNotIn(d, e) ==
    LET keys == [i \in 1 .. Len(d) |-> d[i][1]]
        Absent(k) == ~DictHas(e, k)
    IN SelectSeq(keys, Absent)

\* nn.Module.load_state_dict(state_dict, strict=False) of a module whose own
\* state is own: the entries present on both sides are copied in, the keys
\* only the module has are missing, the keys only state_dict has unexpected
Module_load_state_dict(own, state_dict) ==
    [state |-> [i \in 1 .. Len(own) |->
                   IF DictHas(state_dict, own[i][1])
                   THEN <<own[i][1], DictGet(state_dict, own[i][1])>>
                   ELSE own[i]],
     missing_keys |-> KeysNotIn(own, state_dict),
     unexpected_keys |-> KeysNotIn(state_dict, own)]

RECURSIVE SplitLoop(_, _, _)
\* attribution.py lines 150-157: the loop over state_dict.items();
\* acc = [model_state, attribution_state]
SplitLoop(items, i, acc) ==
    IF i > Len(items) THEN acc
    ELSE LET key == items[i][1]
             value == items[i][2]
         IN IF StartsWith(key, ModelPrefix)
            THEN SplitLoop(items, i + 1,
                     [acc EXCEPT !.model_state =
                         DictSet(@, DropChars(key, ModelPrefixLen), value)])
            ELSE IF StartsWith(key, HeadPrefix)
            THEN SplitLoop(items, i + 1,
                     [acc EXCEPT !.attribution_state =
                         DictSet(@, DropChars(key, HeadPrefixLen), value)])
            ELSE SplitLoop(items, i + 1,
                     [acc EXCEPT !.model_state = DictSet(@, key, value)])

\* line 164: if attribution_state
\* (faulty variant: the head is never loaded)
HeadSupplied_Never(attribution_state) == FALSE
HeadSupplied(attribution_state) == attribution_state # <<>>

\* AttributionWrapper.load_state_dict(state_dict, strict) on the wrapper w
\* (w.base the wrapped model's state, w.head the attribution head's): the
\* wrapper afterwards, the two lists, and whether RuntimeError is raised
AttributionWrapper_load_state_dict(w, state_dict, strict) ==
    LET s == SplitLoop(state_dict, 1, [model_state |-> <<>>, attribution_state |-> <<>>])
        m == Module_load_state_dict(w.base, s.model_state)
        a == IF HeadSupplied(s.attribution_state)
             THEN Module_load_state_dict(w.head, s.attribution_state)
             ELSE [state |-> w.head, missing_keys |-> <<>>, unexpected_keys |-> <<>>]
        missing == m.missing_keys \o a.missing_keys
        unexpected == m.unexpected_keys \o a.unexpected_keys
    IN [base |-> m.state, head |-> a.state,
        missing_keys |-> missing, unexpected_keys |-> unexpected,
        raised |-> strict /\ (missing # <<>> \/ unexpected # <<>>)]

\* AttributionWrapper.state_dict (prefix = '') of the wrapper w
Wrapper_state_dict(w) ==
    DictUpdate(DictUpdate(<<>>, WithPrefix(ModelPrefix, w.base)),
               WithPrefix(HeadPrefix, w.head))

(* --------------------------- state of Spec ---------------------------- *)
VARIABLES
    world,       \* world size of the job: its ranks are 0 .. world-1
    calls,       \* number of save_ckpt_for_rollout calls the training loop makes
    model,       \* the model every rank passes to save_ckpt_for_rollout
    callArgs,    \* arguments of the 1st, 2nd, ... call (the same on every rank)
    callNo,      \* per rank: number of calls entered
    pc,          \* per rank: position of the caller
    frame,       \* per rank and call: the locals of the call (closure of _save)
    sv,          \* per rank and call: position of the execution of _save
    dirExists,   \* per directory: it exists
    primary,     \* per directory: the file model.safetensors
    stable,      \* per directory: the file stable exists
    arrived,     \* per rank: number of collective gathers invoked so far
    log,         \* per rank and call: the events of the call, in order
    async_ckpt_job   \* per rank: the module variable async_ckpt_job (line 99)

(* ------------------------- state of SpecLocal ------------------------- *)
VARIABLES
    sharedFS,        \* the nodes mount the same storage under path_root
    localWorldSize,  \* processes per node
    lpc,             \* per process: position in save_checkpoint_fsdp_state
    progress,        \* per process: its TrainingProgress
    lfiles,          \* per file: status and content
    lwrites,         \* per file: the ranks that opened it for writing
    ljob,            \* the job: its processes and its architecture
    objs,            \* per process: its model, optimizers and scheduler
    run,             \* per process: number of times it has been restarted
    lcall            \* per process: the call it is in or has last made

(* ------------------------ state of SpecWrapper ------------------------ *)
VARIABLES
    wrapper,         \* the live AttributionWrapper: wrapped model's and head's state
    wargs,           \* the arguments of load_state_dict
    wpc,             \* position of the caller of load_state_dict
    wout             \* what load_state_dict returned

(* ------------------------ state of SpecSnapshot ----------------------- *)
VARIABLES
    smodel,          \* the model's state_dict: per key, the tensor it holds
    sdata,           \* per key: the values the parameter holds now
    scall,           \* the asynchronous call: its position and its cpu_state
    sfile            \* what save_file wrote to model.safetensors, per key

(* ------------------------ state of SpecProtocol ----------------------- *)
VARIABLES
    last_hidden_states,  \* the wrapper's attribute _last_hidden_states
    wdevice,             \* the device the wrapped model and the head are on
    ptrace               \* the calls made on the wrapper so far, in order

rolloutVars ==
    <<world, calls, model, callArgs, callNo, pc, frame, sv, dirExists, primary, stable,
      arrived, log, async_ckpt_job>>
localVars == <<sharedFS, localWorldSize, lpc, progress, lfiles, lwrites, ljob, objs, run, lcall>>
wrapperVars == <<wrapper, wargs, wpc, wout>>
snapVars == <<smodel, sdata, scall, sfile>>
protoVars == <<last_hidden_states, wdevice, ptrace>>
vars == <<rolloutVars, localVars, wrapperVars, snapVars, protoVars>>

\* the variables of a specification that another specification leaves alone
RolloutUnused ==
    /\ world = 0 /\ calls = 0 /\ model = <<>> /\ callArgs = <<>> /\ callNo = <<>>
    /\ pc = <<>> /\ frame = <<>> /\ sv = <<>> /\ dirExists = <<>> /\ primary = <<>>
    /\ stable = <<>> /\ arrived = <<>> /\ log = <<>> /\ async_ckpt_job = <<>>
LocalUnused ==
    /\ sharedFS = FALSE /\ localWorldSize = 1 /\ lpc = <<>> /\ progress = <<>>
    /\ lfiles = <<>> /\ lwrites = <<>> /\ ljob = <<>> /\ objs = <<>> /\ run = <<>>
    /\ lcall = <<>>
WrapperUnused == wrapper = <<>> /\ wargs = <<>> /\ wpc = "none" /\ wout = <<>>
SnapshotUnused == smodel = <<>> /\ sdata = <<>> /\ scall = <<>> /\ sfile = <<>>
ProtocolUnused == last_hidden_states = <<>> /\ wdevice = "none" /\ ptrace = <<>>


(* ---------------------- save_ckpt_for_rollout ------------------------- *)
\* path / "model.safetensors" and path / "stable"
PathFile(path) == <<path, "model.safetensors">>
StableFile(path) == <<path, "stable">>

NoValue == [name |-> <<>>, kind |-> "none", dtype |-> "none", device |-> "none"]
NoFrame ==
    [state_dict |-> <<>>, original_key_mapping |-> <<>>, idx |-> 0,
     value |-> NoValue, cpu_state |-> <<>>, ret |-> <<>>]
NoFile == [status |-> "absent", content |-> <<>>, writers |-> {}, dirty |-> {}]

\* the call of rank r that is running or has last run
Cur(r) == callNo[r]
Args(n) == callArgs[n]

Logged(r, n, events) == [log EXCEPT ![r][n] = @ \o events]

\* world_info.rank == 0 (lines 154 and 166)
\* (faulty variant: the rank test is left out)
IsCoordinator_Any(r) == TRUE
IsCoordinator(r) == r = 0

\* if async_save (line 174): _save runs on a thread
\* (faulty variants: async_save is ignored)
RunsOnThread_Always(async_save) == TRUE
RunsOnThread_Never(async_save) == FALSE
RunsOnThread(async_save) == async_save

\* stable_file.touch() is reached (line 170) only when save_file (line 167)
\* has returned
\* (faulty variant: the touch sits in a finally block)
CanTouch_AfterFailure(st) == st \in {"written", "failed"}
CanTouch(st) == st = "written"

\* sizes of the set get_fqns(model, original_key) may return: torch's
\* _get_fqns is outside the repository; the code asserts it is 1 (line 158)
FqnSizes(r) == IF IsCoordinator(r) THEN {1, 2} ELSE {1}

\* line 99: async_ckpt_job = None
NoJob == <<>>
\* threading.Thread(target=_save) of call n on rank r
Thread(r, n) == <<"thread", r, n>>
\* line 176: async_ckpt_job = threading.Thread(target=_save).  The function has
\* no global statement, so the assignment binds a local name and the module
\* variable keeps its value.
\* (faulty variant: the assignment reaches the module variable)
ModuleJobAfterAssign_Global(module_value, thread) == thread
ModuleJobAfterAssign(module_value, thread) == module_value

\* The jobs explored: a job of NumRanks ranks that makes one call, a job of
\* one rank that makes MaxCalls calls (both on the models whose tensors are
\* named in BaseKeyOrder's order), and a job of one rank that makes one
\* call on any model.
PrefixModels == {m \in Models : \A i \in 1 .. Len(m.base) : m.base[i][1] = BaseKeyOrder[i]}
Jobs ==
    [world : {NumRanks}, calls : {1}, model : PrefixModels]
    \cup [world : {1}, calls : {MaxCalls}, model : PrefixModels]
    \cup [world : {1}, calls : {1}, model : Models]

Init ==
    /\ \E j \in Jobs : world = j.world /\ calls = j.calls /\ model = j.model
    /\ callArgs = <<>>
    /\ callNo = [r \in Ranks |-> 0]
    /\ pc = [r \in Ranks |-> "idle"]
    /\ frame = [r \in Ranks |-> [n \in CallIds |-> NoFrame]]
    /\ sv = [r \in Ranks |-> [n \in CallIds |-> "none"]]
    /\ dirExists = [d \in Dirs |-> FALSE]
    /\ primary = [d \in Dirs |-> NoFile]
    /\ stable = [d \in Dirs |-> FALSE]
    /\ arrived = [r \in Ranks |-> 0]
    /\ log = [r \in Ranks |-> [n \in CallIds |-> <<>>]]
    /\ async_ckpt_job = [r \in Ranks |-> NoJob]
    /\ sharedFS = FALSE
    /\ localWorldSize = 1
    /\ lpc = <<>>
    /\ progress = <<>>
    /\ lfiles = <<>>
    /\ lwrites = <<>>
    /\ ljob = <<>>
    /\ objs = <<>>
    /\ run = <<>>
    /\ lcall = <<>>
    /\ wrapper = <<>>
    /\ wargs = <<>>
    /\ wpc = "none"
    /\ wout = <<>>
    /\ SnapshotUnused
    /\ ProtocolUnused

\* Directories are interchangeable: a call names a directory an earlier call
\* named, or the next unused one.
FreshOrUsed == {d \in Dirs : d = 1 \/ \E i \in 1 .. Len(callArgs) : callArgs[i].path >= d - 1}

\* lines 110-146: the call is entered, the output directory is created if
\* absent, the state is extracted and its keys are filtered
Enter(r) ==
    /\ pc[r] \in {"idle", "returned"}
    /\ r < world
    /\ callNo[r] < calls
    /\ LET n == callNo[r] + 1 IN
       /\ IF n <= Len(callArgs)
          THEN UNCHANGED callArgs
          ELSE \E path \in FreshOrUsed, async_save \in BOOLEAN :
                  callArgs' = Append(callArgs, [path |-> path, async_save |-> async_save,
                                                dtype |-> TargetDtype])
       /\ LET path == callArgs'[n].path
              full_state_dict == StateDictOf(model)
              f == FilterStateDict(model.composite, full_state_dict)
          IN /\ dirExists' = [dirExists EXCEPT ![path] = TRUE]
             /\ log' = Logged(r, n, IF dirExists[path] THEN <<>> ELSE << <<"mkdir", path>> >>)
             /\ frame' = [frame EXCEPT ![r][n] =
                             [NoFrame EXCEPT !.state_dict = f.state_dict,
                                             !.original_key_mapping = f.original_key_mapping,
                                             !.idx = 1]]
             /\ pc' = [pc EXCEPT ![r] = IF f.state_dict = <<>> THEN "dispatch" ELSE "loop"]
       /\ callNo' = [callNo EXCEPT ![r] = n]
    /\ UNCHANGED <<world, calls, model, sv, primary, stable, arrived, async_ckpt_job, localVars, wrapperVars, snapVars, protoVars>>

\* lines 154-161 for the item at idx, with the (cast, gathered) value v and
\* get_fqns returning a set of nfqn names; then the loop advances
RankZeroBlock(r, n, v, nfqn, events) ==
    LET fr == frame[r][n]
        key == fr.state_dict[fr.idx][1]
        original_key == DictGet(fr.original_key_mapping, key)
        last == fr.idx = Len(fr.state_dict)
    IN IF IsCoordinator(r) /\ nfqn # 1
       THEN \* assert len(key_fqn) == 1 fails
            /\ pc' = [pc EXCEPT ![r] = "raised"]
            /\ frame' = [frame EXCEPT ![r][n].value = NoValue]
            /\ log' = Logged(r, n, events \o << <<"AssertionError", original_key>> >>)
       ELSE /\ pc' = [pc EXCEPT ![r] = IF last THEN "dispatch" ELSE "loop"]
            /\ frame' = [frame EXCEPT ![r][n] =
                            [fr EXCEPT !.idx = @ + 1,
                                       !.value = NoValue,
                                       !.cpu_state = IF IsCoordinator(r)
                                                     THEN DictSet(@, key, ToCpu(v))
                                                     ELSE @]]
            /\ log' = Logged(r, n, events \o (IF IsCoordinator(r) THEN << <<"insert", key>> >>
                                             ELSE <<>>))

\* lines 148-152: the next item; a DTensor is cast and its gather invoked
LoopNext(r) ==
    /\ pc[r] = "loop"
    /\ LET n == Cur(r)
           fr == frame[r][n]
           key == fr.state_dict[fr.idx][1]
           value == fr.state_dict[fr.idx][2]
       IN IF IsDTensor(value)
          THEN /\ frame' = [frame EXCEPT ![r][n].value = CastTo(value, Args(n).dtype)]
               /\ arrived' = [arrived EXCEPT ![r] = @ + 1]
               /\ pc' = [pc EXCEPT ![r] = "gather"]
               /\ log' = Logged(r, n, << <<"cast", key>>, <<"gather", key>> >>)
          ELSE /\ \E nfqn \in FqnSizes(r) : RankZeroBlock(r, n, value, nfqn, <<>>)
               /\ UNCHANGED arrived
    /\ UNCHANGED <<world, calls, model, callArgs, callNo, sv, dirExists, primary, stable, async_ckpt_job, localVars, wrapperVars, snapVars, protoVars>>

\* full_tensor() returns once every rank has contributed its shard
GatherDone(r) ==
    /\ pc[r] = "gather"
    /\ \A q \in Ranks : q < world => arrived[q] >= arrived[r]
    /\ LET n == Cur(r)
           key == frame[r][n].state_dict[frame[r][n].idx][1]
       IN \E nfqn \in FqnSizes(r) :
              RankZeroBlock(r, n, FullTensor(frame[r][n].value), nfqn,
                            << <<"gathered", key>> >>)
    /\ UNCHANGED <<world, calls, model, callArgs, callNo, sv, dirExists, primary, stable, arrived, async_ckpt_job, localVars, wrapperVars, snapVars, protoVars>>


\* lines 174-181: _save is handed to a thread, or run by the caller
Dispatch(r) ==
    /\ pc[r] = "dispatch"
    /\ LET n == Cur(r)
           path_file == PathFile(Args(n).path)
       IN IF RunsOnThread(Args(n).async_save)
          THEN \* threading.Thread(target=_save).start(); return path_file
               /\ sv' = [sv EXCEPT ![r][n] = "ready"]
               /\ pc' = [pc EXCEPT ![r] = "returned"]
               /\ frame' = [frame EXCEPT ![r][n].ret = path_file]
               /\ log' = Logged(r, n, << <<"thread_start">>, <<"return">> >>)
               /\ async_ckpt_job' = [async_ckpt_job EXCEPT ![r] =
                                         ModuleJobAfterAssign(@, Thread(r, n))]
          ELSE IF IsCoordinator(r)
          THEN \* _save() on the caller's path
               /\ sv' = [sv EXCEPT ![r][n] = "ready"]
               /\ pc' = [pc EXCEPT ![r] = "save"]
               /\ UNCHANGED <<frame, log, async_ckpt_job>>
          ELSE \* _save() does nothing on this rank; return path_file
               /\ sv' = [sv EXCEPT ![r][n] = "done"]
               /\ pc' = [pc EXCEPT ![r] = "returned"]
               /\ frame' = [frame EXCEPT ![r][n].ret = path_file]
               /\ log' = Logged(r, n, << <<"return">> >>)
               /\ UNCHANGED async_ckpt_job
    /\ UNCHANGED <<world, calls, model, callArgs, callNo, dirExists, primary, stable, arrived, localVars, wrapperVars, snapVars, protoVars>>

\* what the end of _save means for the caller: nothing when _save runs on a
\* thread; the return of path_file, or the propagated exception, when the
\* caller runs it
AfterSave(r, n, ok, events) ==
    IF RunsOnThread(Args(n).async_save)
    THEN /\ UNCHANGED <<pc, frame>>
         /\ log' = Logged(r, n, events)
    ELSE IF ok
    THEN /\ pc' = [pc EXCEPT ![r] = "returned"]
         /\ frame' = [frame EXCEPT ![r][n].ret = PathFile(Args(n).path)]
         /\ log' = Logged(r, n, events \o << <<"return">> >>)
    ELSE /\ pc' = [pc EXCEPT ![r] = "raised"]
         /\ UNCHANGED frame
         /\ log' = Logged(r, n, events)

\* line 166 on a rank other than 0 (thread), line 167 on rank 0: save_file
\* creates or truncates model.safetensors and starts writing
SaveBegin(r, n) ==
    /\ sv[r][n] = "ready"
    /\ IF ~IsCoordinator(r)
       THEN /\ sv' = [sv EXCEPT ![r][n] = "done"]
            /\ AfterSave(r, n, TRUE, <<>>)
            /\ UNCHANGED primary
       ELSE LET d == Args(n).path
                f == primary[d]
            IN /\ sv' = [sv EXCEPT ![r][n] = "writing"]
               /\ primary' = [primary EXCEPT ![d] =
                                 [status |-> "partial", content |-> <<>>,
                                  writers |-> f.writers \cup {<<r, n>>},
                                  dirty |-> IF f.writers = {} THEN f.dirty
                                            ELSE f.writers \cup {<<r, n>>}]]
               /\ log' = Logged(r, n, << <<"write_begin", d>> >>)
               /\ UNCHANGED <<pc, frame>>
    /\ UNCHANGED <<world, calls, model, callArgs, callNo, dirExists, stable, arrived, async_ckpt_job, localVars, wrapperVars, snapVars, protoVars>>

\* save_file returns: the file holds cpu_state, unless another save_file
\* wrote the same file meanwhile, which leaves either a whole or a torn file
SaveEnd(r, n) ==
    /\ sv[r][n] = "writing"
    /\ LET d == Args(n).path
           f == primary[d]
       IN \E st \in (IF <<r, n>> \in f.dirty THEN {"complete", "torn"} ELSE {"complete"}) :
             primary' = [primary EXCEPT ![d] =
                            [status |-> IF f.writers = {<<r, n>>} THEN st ELSE "partial",
                             content |-> IF f.writers = {<<r, n>>} /\ st = "complete"
                                         THEN frame[r][n].cpu_state ELSE <<>>,
                             writers |-> f.writers \ {<<r, n>>},
                             dirty |-> f.dirty \ {<<r, n>>}]]
    /\ sv' = [sv EXCEPT ![r][n] = "written"]
    /\ log' = Logged(r, n, << <<"write_end", Args(n).path>> >>)
    /\ UNCHANGED <<world, calls, model, callArgs, callNo, pc, frame, dirExists, stable, arrived, async_ckpt_job, localVars, wrapperVars, snapVars, protoVars>>

\* save_file raises (disk full, permissions, ...): before the file is
\* touched, or part-way, which leaves it truncated
SaveFail(r, n) ==
    /\ IsCoordinator(r)
    /\ sv[r][n] \in {"ready", "writing"}
    /\ LET d == Args(n).path
           f == primary[d]
       IN primary' = [primary EXCEPT ![d] =
                         [f EXCEPT !.writers = @ \ {<<r, n>>}, !.dirty = @ \ {<<r, n>>}]]
    /\ sv' = [sv EXCEPT ![r][n] = "failed"]
    /\ AfterSave(r, n, FALSE, << <<"IOError">> >>)
    /\ UNCHANGED <<world, calls, model, callArgs, callNo, dirExists, stable, arrived, async_ckpt_job, localVars, wrapperVars, snapVars, protoVars>>

\* lines 169-172: stable_file.touch()
Touch(r, n) ==
    /\ CanTouch(sv[r][n])
    /\ stable' = [stable EXCEPT ![Args(n).path] = TRUE]
    /\ sv' = [sv EXCEPT ![r][n] = "done"]
    /\ AfterSave(r, n, TRUE, << <<"touch", Args(n).path>> >>)
    /\ UNCHANGED <<world, calls, model, callArgs, callNo, dirExists, primary, arrived, async_ckpt_job, localVars, wrapperVars, snapVars, protoVars>>

Next ==
    \E r \in Ranks :
        \/ Enter(r)
        \/ LoopNext(r)
        \/ GatherDone(r)
        \/ Dispatch(r)
        \/ \E n \in CallIds :
              \/ SaveBegin(r, n)
              \/ SaveEnd(r, n)
              \/ SaveFail(r, n)
              \/ Touch(r, n)

Spec == Init /\ [][Next]_vars


(* ------ save_checkpoint_fsdp_state, load_checkpoint_fsdp_state -------- *)
Procs == 0 .. (NumProcs - 1)
Steps == 0 .. MaxStep

\* get_world_info(): rank is the process's index in the job, local_rank its
\* index among the processes of its node
WorldRank(p) == p
LocalRank(p) == p % localWorldSize
NodeOf(p) == p \div localWorldSize
\* the storage a path names on the node of process p
VolumeOf(p) == IF sharedFS THEN 0 ELSE NodeOf(p)

\* _local_file_path: path / f"local_rank_{local_rank}.pt"
local_file_path(path, local_rank) == <<path, local_rank>>
\* path_root / f"step_{training_progress.step}"
StepDir(step) == step
\* the file save_checkpoint_fsdp_state of process p writes at this step
SaveFileOf(p, step) == <<VolumeOf(p), local_file_path(StepDir(step), LocalRank(p))>>
\* the file load_checkpoint_fsdp_state of process p reads for this step
LoadFileOf(p, step) == <<VolumeOf(p), local_file_path(StepDir(step), LocalRank(p))>>

LocalFiles == {<<v, local_file_path(StepDir(st), lr)>> : v \in Procs, st \in Steps, lr \in Procs}

TrainingProgress(total_tokens, step, total_samples) ==
    [total_tokens |-> total_tokens, step |-> step, total_samples |-> total_samples]

\* The model, optimizers and scheduler a process passes to save and load.
\* The values they hold name the training step that produced them (0: the
\* values of a freshly constructed object).
FreshModel(composite, nkeys) ==
    [composite |-> composite,
     base |-> [i \in 1 .. nkeys |-> <<BaseKeyOrder[i], 0>>],
     head |-> IF composite THEN << <<S_projection_weight, 0>> >> ELSE <<>>]
\* model.parameters(): the tensors an optimizer of the model holds in its
\* parameter group
ParamCount(m) == Len(m.base) + Len(m.head)
FreshObjects(job, nopt) ==
    [model |-> FreshModel(job.composite, job.nkeys),
     optimizers |-> [i \in 1 .. nopt |->
                       [id |-> i, state |-> 0,
                        param_groups |-> ParamCount(FreshModel(job.composite, job.nkeys))]],
     scheduler |-> [last_epoch |-> 0]]

\* model.state_dict()
Model_state_dict(m) == IF m.composite THEN Wrapper_state_dict(m) ELSE m.base
\* model.load_state_dict(state_dict), strict by default
\* (faulty variant: the keys are not compared)
Model_load_state_dict_NotStrict(m, state_dict) ==
    IF m.composite
    THEN AttributionWrapper_load_state_dict(m, state_dict, FALSE)
    ELSE LET r == Module_load_state_dict(m.base, state_dict)
         IN [base |-> r.state, head |-> m.head,
             missing_keys |-> r.missing_keys, unexpected_keys |-> r.unexpected_keys,
             raised |-> FALSE]
Model_load_state_dict(m, state_dict) ==
    IF m.composite
    THEN AttributionWrapper_load_state_dict(m, state_dict, TRUE)
    ELSE LET r == Module_load_state_dict(m.base, state_dict)
         IN [base |-> r.state, head |-> m.head,
             missing_keys |-> r.missing_keys, unexpected_keys |-> r.unexpected_keys,
             raised |-> r.missing_keys # <<>> \/ r.unexpected_keys # <<>>]
\* optimizer.state_dict(), optimizer.load_state_dict(optimizer_state)
Optimizer_state_dict(o) == [state |-> o.state, param_groups |-> o.param_groups]
Optimizer_load_state_dict(o, optimizer_state) == [o EXCEPT !.state = optimizer_state.state]
\* optimizer.load_state_dict raises ValueError, before it changes anything,
\* when the saved parameter group has another size than the optimizer's
Optimizer_load_raises(o, optimizer_state) == o.param_groups # optimizer_state.param_groups
\* scheduler.state_dict(), scheduler.load_state_dict(state["scheduler"])
Scheduler_state_dict(sch) == [last_epoch |-> sch.last_epoch]
Scheduler_load_state_dict(sch, st) == [sch EXCEPT !.last_epoch = st.last_epoch]

\* lines 89-90: for optimizer, optimizer_state in zip(optimizers, state["optimizers"])
\* the pairs of the loop whose load_state_dict raises
ZipFails(optimizers, states) ==
    {i \in 1 .. Len(optimizers) :
        i <= Len(states) /\ Optimizer_load_raises(optimizers[i], states[i])}
\* the optimizers after the loop, which ends at the first pair that raises
ZipLoad(optimizers, states) ==
    [i \in 1 .. Len(optimizers) |->
        IF i <= Len(states) /\ \A k \in ZipFails(optimizers, states) : i < k
        THEN Optimizer_load_state_dict(optimizers[i], states[i])
        ELSE optimizers[i]]

\* lines 92-94: the three fields of the caller's TrainingProgress
\* (faulty variant: total_samples is not restored)
RestoredProgress_NoSamples(training_progress, saved) ==
    TrainingProgress(saved.total_tokens, saved.step, training_progress.total_samples)
\* (faulty variant: the fields are set to those of a new TrainingProgress)
RestoredProgress_Default(training_progress, saved) == TrainingProgress(0, 0, 0)
RestoredProgress(training_progress, saved) ==
    TrainingProgress(saved.total_tokens, saved.step, saved.total_samples)

\* line 81: os.path.exists(path_file)
\* (faulty variant: the test is left out)
Exists_Always(f) == TRUE
Exists(f) == f.status # "absent"

\* the state save_checkpoint_fsdp_state builds (lines 57-61), as torch.save
\* writes it; rank, run and saved record who wrote it and from which objects
CheckpointState(rank, r, o, training_progress) ==
    [rank |-> rank, run |-> r,
     saved |-> [objs |-> o, progress |-> training_progress],
     model |-> Model_state_dict(o.model),
     optimizers |-> [i \in 1 .. Len(o.optimizers) |-> Optimizer_state_dict(o.optimizers[i])],
     training_progress |-> training_progress,
     scheduler |-> Scheduler_state_dict(o.scheduler)]
SavedState(p) == CheckpointState(WorldRank(p), run[p], objs[p], progress[p])

NoCall == [op |-> "none", outcome |-> "none", step |-> 0, state |-> <<>>]
LoadCall(outcome, step, state) ==
    [op |-> "load", outcome |-> outcome, step |-> step, state |-> state]

\* The jobs explored: in SpecLocal a job of NumProcs processes that trains
\* from scratch and saves; in SpecResume one process that trains, saves,
\* restarts and loads, on a plain model or an AttributionWrapper.
LocalJobs == [procs : {NumProcs}, composite : {FALSE}, nkeys : {1}, nopts : {1}]
ResumeJobs ==
    [procs : {1}, composite : BOOLEAN,
     nkeys : {IF MaxKeys <= Len(BaseKeyOrder) THEN MaxKeys ELSE Len(BaseKeyOrder)},
     nopts : {MaxOpts}]
\* the files the processes of a job can name
FilesOf(job) ==
    {<<v, local_file_path(StepDir(st), lr)>> :
        v \in 0 .. (job.procs - 1), st \in Steps, lr \in 0 .. (job.procs - 1)}
OptCounts(job) == 1 .. job.nopts
InJob(p) == p < ljob.procs

\* the state before the first call of a job whose processes are spread over
\* nodes of lws processes each
LocalStart(j, shared, lws) ==
    /\ ljob = j
    /\ sharedFS = shared
    /\ localWorldSize = lws
    /\ \E nopt \in OptCounts(j) : objs = [p \in Procs |-> FreshObjects(j, nopt)]
    /\ lpc = [p \in Procs |-> "idle"]
    /\ progress = [p \in Procs |-> TrainingProgress(0, 0, 0)]
    /\ lfiles = [f \in FilesOf(j) |-> NoFile]
    /\ lwrites = [f \in FilesOf(j) |-> {}]
    /\ run = [p \in Procs |-> 0]
    /\ lcall = [p \in Procs |-> NoCall]
    /\ world = 0
    /\ calls = 0
    /\ model = <<>>
    /\ callArgs = <<>>
    /\ callNo = <<>>
    /\ pc = <<>>
    /\ frame = <<>>
    /\ sv = <<>>
    /\ dirExists = <<>>
    /\ primary = <<>>
    /\ stable = <<>>
    /\ arrived = <<>>
    /\ log = <<>>
    /\ async_ckpt_job = <<>>
    /\ wrapper = <<>>
    /\ wargs = <<>>
    /\ wpc = "none"
    /\ wout = <<>>
    /\ SnapshotUnused
    /\ ProtocolUnused

InitLocal ==
    \E j \in LocalJobs, shared \in BOOLEAN, lws \in 1 .. NumProcs : LocalStart(j, shared, lws)

InitResume == \E j \in ResumeJobs : LocalStart(j, FALSE, 1)

\* the state d with every value replaced by v
AllSet(d, v) == [i \in 1 .. Len(d) |-> <<d[i][1], v>>]

\* the training loop: one optimizer step, which leaves in the model, the
\* optimizers and the scheduler the values of the step it completes
TrainStep(p) ==
    /\ lpc[p] = "idle"
    /\ InJob(p)
    /\ progress[p].step < MaxStep
    /\ progress' = [progress EXCEPT ![p] =
                       TrainingProgress(@.total_tokens + 2, @.step + 1, @.total_samples + 1)]
    /\ LET v == progress[p].step + 1
       IN objs' = [objs EXCEPT ![p] =
                      [model |-> [@.model EXCEPT !.base = AllSet(@, v), !.head = AllSet(@, v)],
                       optimizers |-> [i \in 1 .. Len(@.optimizers) |->
                                          [@.optimizers[i] EXCEPT !.state = v]],
                       scheduler |-> [last_epoch |-> v]]]
    /\ lcall' = [lcall EXCEPT ![p] = NoCall]
    /\ UNCHANGED <<sharedFS, localWorldSize, lpc, lfiles, lwrites, ljob, run, rolloutVars, wrapperVars, snapVars, protoVars>>

\* lines 49-56: the step directory is made and this process's file is
\* opened "wb", which creates or truncates it
SaveOpen(p) ==
    /\ lpc[p] = "idle"
    /\ InJob(p)
    /\ LET path_file == SaveFileOf(p, progress[p].step)
           f == lfiles[path_file]
       IN /\ lfiles' = [lfiles EXCEPT ![path_file] =
                           [status |-> "partial", content |-> <<>>,
                            writers |-> f.writers \cup {p},
                            dirty |-> IF f.writers = {} THEN f.dirty
                                      ELSE f.writers \cup {p}]]
          /\ lwrites' = [lwrites EXCEPT ![path_file] = @ \cup {WorldRank(p)}]
    /\ lpc' = [lpc EXCEPT ![p] = "open"]
    /\ lcall' = [lcall EXCEPT ![p] = NoCall]
    /\ UNCHANGED <<sharedFS, localWorldSize, progress, ljob, objs, run, rolloutVars, wrapperVars, snapVars, protoVars>>

\* lines 57-63: the state is extracted and torch.save writes it; the file
\* is whole unless another process wrote the same file meanwhile
SaveWrite(p) ==
    /\ lpc[p] = "open"
    /\ LET path_file == SaveFileOf(p, progress[p].step)
           f == lfiles[path_file]
       IN \E st \in (IF p \in f.dirty THEN {"complete", "torn"} ELSE {"complete"}) :
             lfiles' = [lfiles EXCEPT ![path_file] =
                           [status |-> IF f.writers = {p} THEN st ELSE "partial",
                            content |-> IF f.writers = {p} /\ st = "complete"
                                        THEN SavedState(p)
                                        ELSE <<>>,
                            writers |-> f.writers \ {p},
                            dirty |-> f.dirty \ {p}]]
    /\ lpc' = [lpc EXCEPT ![p] = "idle"]
    /\ UNCHANGED <<sharedFS, localWorldSize, progress, lwrites, ljob, objs, run, lcall,
                   rolloutVars, wrapperVars, snapVars, protoVars>>

\* lines 57-63 raise (state extraction or disk I/O): the exception leaves
\* the with block, the file stays as far as it was written
SaveRaise(p) ==
    /\ lpc[p] = "open"
    /\ LET path_file == SaveFileOf(p, progress[p].step)
       IN lfiles' = [lfiles EXCEPT ![path_file] =
                        [@ EXCEPT !.writers = @ \ {p}, !.dirty = @ \ {p}]]
    /\ lpc' = [lpc EXCEPT ![p] = "raised"]
    /\ UNCHANGED <<sharedFS, localWorldSize, progress, lwrites, ljob, objs, run, lcall,
                   rolloutVars, wrapperVars, snapVars, protoVars>>

\* the process is started again (a new run of the job): fresh objects of the
\* same architecture, with as many optimizers as the new run configures
Restart(p) ==
    /\ InJob(p)
    /\ lpc[p] \in {"idle", "raised"}
    /\ run[p] < MaxRestarts
    /\ \E nopt \in OptCounts(ljob) : objs' = [objs EXCEPT ![p] = FreshObjects(ljob, nopt)]
    /\ progress' = [progress EXCEPT ![p] = TrainingProgress(0, 0, 0)]
    /\ run' = [run EXCEPT ![p] = @ + 1]
    /\ lpc' = [lpc EXCEPT ![p] = "idle"]
    /\ lcall' = [lcall EXCEPT ![p] = NoCall]
    /\ UNCHANGED <<sharedFS, localWorldSize, lfiles, lwrites, ljob, rolloutVars, wrapperVars, snapVars, protoVars>>

\* lines 76-85: load_checkpoint_fsdp_state(model, optimizers,
\* training_progress, scheduler, path) with path the directory of a step:
\* the existence test, then torch.load
LoadOpen(p, step) ==
    /\ InJob(p)
    /\ lpc[p] = "idle"
    /\ LET path_file == LoadFileOf(p, step)
           f == lfiles[path_file]
       IN IF ~Exists(f)
          THEN /\ lpc' = [lpc EXCEPT ![p] = "raised"]
               /\ lcall' = [lcall EXCEPT ![p] = LoadCall("FileNotFoundError", step, <<>>)]
          ELSE IF f.status = "complete"
          THEN /\ lpc' = [lpc EXCEPT ![p] = "load_model"]
               /\ lcall' = [lcall EXCEPT ![p] = LoadCall("running", step, f.content)]
          ELSE \* torch.load on a file that is not a whole pickle
               /\ lpc' = [lpc EXCEPT ![p] = "raised"]
               /\ lcall' = [lcall EXCEPT ![p] = LoadCall("UnpicklingError", step, <<>>)]
    /\ UNCHANGED <<sharedFS, localWorldSize, progress, lfiles, lwrites, ljob, objs, run,
                   rolloutVars, wrapperVars, snapVars, protoVars>>

\* line 87: model.load_state_dict(state["model"])
LoadModel(p) ==
    /\ lpc[p] = "load_model"
    /\ LET r == Model_load_state_dict(objs[p].model, lcall[p].state.model)
       IN /\ objs' = [objs EXCEPT ![p].model = [@ EXCEPT !.base = r.base, !.head = r.head]]
          /\ IF r.raised
             THEN /\ lpc' = [lpc EXCEPT ![p] = "raised"]
                  /\ lcall' = [lcall EXCEPT ![p].outcome = "RuntimeError"]
             ELSE /\ lpc' = [lpc EXCEPT ![p] = "load_optimizers"]
                  /\ UNCHANGED lcall
    /\ UNCHANGED <<sharedFS, localWorldSize, progress, lfiles, lwrites, ljob, run,
                   rolloutVars, wrapperVars, snapVars, protoVars>>

\* lines 89-90: the optimizers, in list order
LoadOptimizers(p) ==
    /\ lpc[p] = "load_optimizers"
    /\ objs' = [objs EXCEPT ![p].optimizers = ZipLoad(@, lcall[p].state.optimizers)]
    /\ IF ZipFails(objs[p].optimizers, lcall[p].state.optimizers) # {}
       THEN /\ lpc' = [lpc EXCEPT ![p] = "raised"]
            /\ lcall' = [lcall EXCEPT ![p].outcome = "ValueError"]
       ELSE /\ lpc' = [lpc EXCEPT ![p] = "load_progress"]
            /\ UNCHANGED lcall
    /\ UNCHANGED <<sharedFS, localWorldSize, progress, lfiles, lwrites, ljob, run,
                   rolloutVars, wrapperVars, snapVars, protoVars>>

\* lines 92-94: total_tokens, step, total_samples
LoadProgress(p) ==
    /\ lpc[p] = "load_progress"
    /\ progress' = [progress EXCEPT ![p] =
                       RestoredProgress(@, lcall[p].state.training_progress)]
    /\ lpc' = [lpc EXCEPT ![p] = "load_scheduler"]
    /\ UNCHANGED <<sharedFS, localWorldSize, lfiles, lwrites, ljob, objs, run, lcall,
                   rolloutVars, wrapperVars, snapVars, protoVars>>

\* line 96: scheduler.load_state_dict(state["scheduler"]); the call returns
LoadScheduler(p) ==
    /\ lpc[p] = "load_scheduler"
    /\ objs' = [objs EXCEPT ![p].scheduler =
                   Scheduler_load_state_dict(@, lcall[p].state.scheduler)]
    /\ lpc' = [lpc EXCEPT ![p] = "idle"]
    /\ lcall' = [lcall EXCEPT ![p].outcome = "ok"]
    /\ UNCHANGED <<sharedFS, localWorldSize, progress, lfiles, lwrites, ljob, run,
                   rolloutVars, wrapperVars, snapVars, protoVars>>

NextLocal ==
    \E p \in Procs :
        \/ TrainStep(p)
        \/ SaveOpen(p)
        \/ SaveWrite(p)
        \/ SaveRaise(p)

SpecLocal == InitLocal /\ [][NextLocal]_vars

NextResume ==
    \E p \in Procs :
        \/ TrainStep(p)
        \/ SaveOpen(p)
        \/ SaveWrite(p)
        \/ SaveRaise(p)
        \/ Restart(p)
        \/ \E step \in Steps : LoadOpen(p, step)
        \/ LoadModel(p)
        \/ LoadOptimizers(p)
        \/ LoadProgress(p)
        \/ LoadScheduler(p)

SpecResume == InitResume /\ [][NextResume]_vars

(* ------ load_checkpoint_fsdp_state in a process that was reconfigured -- *)
\* The run that wrote the checkpoint and the run that loads it may build
\* different objects: a plain model or an AttributionWrapper, more or fewer
\* tensors, more or fewer optimizers.
RestoreJobs ==
    [procs : {1}, composite : BOOLEAN,
     nkeys : 1 .. (IF MaxKeys <= Len(BaseKeyOrder) THEN MaxKeys ELSE Len(BaseKeyOrder)),
     nopts : 1 .. MaxOpts]
\* the objects of a job after the training step that leaves the values v
TrainedObjects(job, v) ==
    LET o == FreshObjects(job, job.nopts)
    IN [model |-> [o.model EXCEPT !.base = AllSet(@, v), !.head = AllSet(@, v)],
        optimizers |-> [i \in 1 .. Len(o.optimizers) |-> [o.optimizers[i] EXCEPT !.state = v]],
        scheduler |-> [last_epoch |-> v]]
\* the file an earlier run left for a step: whole, or cut short
LeftFile(job, step, status) ==
    [status |-> status,
     content |-> IF status = "complete"
                 THEN CheckpointState(0, 0, TrainedObjects(job, step),
                                      TrainingProgress(2 * step, step, step))
                 ELSE <<>>,
     writers |-> {}, dirty |-> {}]

InitRestore ==
    \E writer \in RestoreJobs, j \in RestoreJobs, step \in Steps \ {0},
       status \in {"complete", "partial"} :
        /\ ljob = j
        /\ sharedFS = FALSE
        /\ localWorldSize = 1
        /\ objs = [p \in Procs |-> FreshObjects(j, j.nopts)]
        /\ lpc = [p \in Procs |-> "idle"]
        /\ progress = [p \in Procs |-> TrainingProgress(0, 0, 0)]
        /\ lfiles = [f \in FilesOf(j) |->
                        IF f = <<0, local_file_path(StepDir(step), 0)>>
                        THEN LeftFile(writer, step, status) ELSE NoFile]
        /\ lwrites = [f \in FilesOf(j) |-> {}]
        /\ run = [p \in Procs |-> 1]
        /\ lcall = [p \in Procs |-> NoCall]
        /\ RolloutUnused
        /\ WrapperUnused
        /\ SnapshotUnused
        /\ ProtocolUnused

NextRestore ==
    \E p \in Procs :
        \/ \E step \in Steps : LoadOpen(p, step)
        \/ LoadModel(p)
        \/ LoadOptimizers(p)
        \/ LoadProgress(p)
        \/ LoadScheduler(p)

SpecRestore == InitRestore /\ [][NextRestore]_vars


(* ----------------- AttributionWrapper.load_state_dict ----------------- *)
\* Keys a caller may supply: the wrapper's own names of the base model's
\* tensors, a base model's bare name, the head's name, and a name under the
\* head's prefix that the head does not have.
SuppliedKeyOrder ==
    << ModelPrefix \o S_w, ModelPrefix \o ModelPrefix \o S_w,
       ModelPrefix \o HeadPrefix \o S_w, S_w,
       HeadPrefix \o S_projection_weight, HeadPrefix \o S_w >>
SuppliedDicts ==
    { [i \in 1 .. Len(ix) |-> <<SuppliedKeyOrder[ix[i]], "new">>] :
        ix \in { SortedSeq(S) : S \in SUBSET (1 .. Len(SuppliedKeyOrder)) } }
LiveWrappers ==
    { [base |-> [i \in 1 .. Len(b) |-> <<b[i][1], "old">>],
       head |-> << <<S_projection_weight, "old">> >>] : b \in BaseStateDicts }

\* the wrapper w with every tensor holding the values v
Valued(w, v) == [base |-> AllSet(w.base, v), head |-> AllSet(w.head, v)]
\* what state_dict() of the wrapper w, or of a trained wrapper of the same
\* architecture, returns
OwnDicts(w) == { Wrapper_state_dict(Valued(w, v)) : v \in {"old", "new"} }

InitWrapper ==
    /\ wrapper \in LiveWrappers
    /\ wargs \in [state_dict : SuppliedDicts \cup OwnDicts(wrapper), strict : BOOLEAN]
    /\ wpc = "ready"
    /\ wout = <<>>
    /\ SnapshotUnused
    /\ ProtocolUnused
    /\ world = 0
    /\ calls = 0
    /\ model = <<>>
    /\ callArgs = <<>>
    /\ callNo = <<>>
    /\ pc = <<>>
    /\ frame = <<>>
    /\ sv = <<>>
    /\ dirExists = <<>>
    /\ primary = <<>>
    /\ stable = <<>>
    /\ arrived = <<>>
    /\ log = <<>>
    /\ async_ckpt_job = <<>>
    /\ sharedFS = FALSE
    /\ localWorldSize = 1
    /\ lpc = <<>>
    /\ progress = <<>>
    /\ lfiles = <<>>
    /\ lwrites = <<>>
    /\ ljob = <<>>
    /\ objs = <<>>
    /\ run = <<>>
    /\ lcall = <<>>

\* wrapper.load_state_dict(state_dict, strict): the wrapped model and the
\* head are loaded, then the call raises or returns the two lists
LoadStateDict ==
    /\ wpc = "ready"
    /\ LET r == AttributionWrapper_load_state_dict(wrapper, wargs.state_dict, wargs.strict)
       IN /\ wrapper' = [base |-> r.base, head |-> r.head]
          /\ IF r.raised
             THEN wpc' = "raised" /\ wout' = <<>>
             ELSE wpc' = "returned" /\ wout' = <<r.missing_keys, r.unexpected_keys>>
    /\ UNCHANGED <<wargs, rolloutVars, localVars, snapVars, protoVars>>

NextWrapper == LoadStateDict

SpecWrapper == InitWrapper /\ [][NextWrapper]_vars


(* ------- save_ckpt_for_rollout: the tensors the thread writes --------- *)
\* The process of rank 0 makes one asynchronous call and goes on training
\* while the thread writes.  A parameter's values are numbered: sdata[i] = d
\* says that parameter i has been updated in place d times.
TensorOn(name, kind, device) == [Tensor(name, kind) EXCEPT !.device = device]
SnapshotKeys == 1 .. (IF MaxKeys < Len(BaseKeyOrder) THEN MaxKeys ELSE Len(BaseKeyOrder))
SnapshotModels ==
    { [i \in SnapshotKeys |-> TensorOn(BaseKeyOrder[i], f[i].kind, f[i].device)] :
        f \in [SnapshotKeys -> [kind : {"DTensor", "Tensor"}, device : {"cuda", "cpu"}]] }

\* lines 149-152: a DTensor is replaced by the cast, gathered tensor; any
\* other value is left as the state_dict gave it
StagedValue(v, dtype) == IF IsDTensor(v) THEN FullTensor(CastTo(v, dtype)) ELSE v
\* value.full_tensor() is a tensor of its own; a plain tensor of the
\* state_dict is the parameter's storage
OwnStorage(v) == IsDTensor(v)
\* line 161, value.to("cpu", non_blocking=True): a tensor that is on the host
\* already is returned as it is; one on a device is copied into a new host
\* tensor, and the call returns before the copy has run
ReturnsSelf(staged) == staged.device = "cpu"
\* cpu_state[key] after line 161, with the values the copy will carry
HostEntry(v, data) ==
    LET staged == StagedValue(v, TargetDtype)
    IN [ key |-> v.name,
         value |-> ToCpu(staged),
         shares |-> ReturnsSelf(staged) /\ ~OwnStorage(v),
         landed |-> ReturnsSelf(staged),
         data |-> data ]
\* what save_file reads from an entry of cpu_state: the parameter's values
\* of that moment when the entry is the parameter's storage, the copied
\* values when the copy has run, and no defined values before that
ReadEntry(e, now) ==
    IF e.shares THEN [defined |-> TRUE, data |-> now]
    ELSE IF e.landed THEN [defined |-> TRUE, data |-> e.data]
    ELSE [defined |-> FALSE, data |-> 0]

InitSnapshot ==
    /\ smodel \in SnapshotModels
    /\ sdata = [i \in SnapshotKeys |-> 0]
    /\ scall = [pc |-> "idle", cpu_state |-> <<>>, at_call |-> <<>>]
    /\ sfile = <<>>
    /\ RolloutUnused
    /\ LocalUnused
    /\ WrapperUnused
    /\ ProtocolUnused

\* save_ckpt_for_rollout(model, path, dtype, async_save=True) on rank 0: the
\* loop fills cpu_state, the thread is started and the call returns
SnapshotCall ==
    /\ scall.pc = "idle"
    /\ scall' = [pc |-> "returned",
                 cpu_state |-> [i \in SnapshotKeys |-> HostEntry(smodel[i], sdata[i])],
                 at_call |-> sdata]
    /\ UNCHANGED <<smodel, sdata, sfile, rolloutVars, localVars, wrapperVars, protoVars>>

\* the caller's next optimizer step updates parameter i in place
ParamUpdate(i) ==
    /\ sdata[i] < MaxUpdates
    /\ sdata' = [sdata EXCEPT ![i] = @ + 1]
    /\ UNCHANGED <<smodel, scall, sfile, rolloutVars, localVars, wrapperVars, protoVars>>

\* the device's stream runs the copy of entry i; it was queued before any
\* later update, so it carries the values of the time of the call
CopyLands(i) ==
    /\ scall.pc # "idle"
    /\ ~scall.cpu_state[i].landed
    /\ scall' = [scall EXCEPT !.cpu_state[i].landed = TRUE]
    /\ UNCHANGED <<smodel, sdata, sfile, rolloutVars, localVars, wrapperVars, protoVars>>

\* the thread: save_file(cpu_state, path_file, ...)
ThreadSaveFile ==
    /\ scall.pc = "returned"
    /\ sfile' = [i \in SnapshotKeys |-> ReadEntry(scall.cpu_state[i], sdata[i])]
    /\ scall' = [scall EXCEPT !.pc = "written"]
    /\ UNCHANGED <<smodel, sdata, rolloutVars, localVars, wrapperVars, protoVars>>

NextSnapshot ==
    \/ SnapshotCall
    \/ \E i \in SnapshotKeys : ParamUpdate(i)
    \/ \E i \in SnapshotKeys : CopyLands(i)
    \/ ThreadSaveFile

SpecSnapshot == InitSnapshot /\ [][NextSnapshot]_vars


(* ------ AttributionWrapper: forward and get_attribution_weights ------- *)
Devices == {"cuda", "cpu"}
\* self._last_hidden_states = None
NoHidden == [stored |-> FALSE, forward |-> 0, device |-> "none"]
\* outputs.hidden_states[-1].detach() of the forward call that is the n-th
\* call made on the wrapper
HiddenOf(n, device) == [stored |-> TRUE, forward |-> n, device |-> device]
\* line 104: self._last_hidden_states is None
IsNone(h) == ~h.stored
\* line 108: self._last_hidden_states.to(loss_mask.device)
HiddenTo(h, device) == [h EXCEPT !.device = device]
\* line 109: self.attribution_head(hidden_states); the head's Linear raises
\* RuntimeError on a tensor that is on another device than its weight
HeadRaises(hidden_states, head_device) == hidden_states.device # head_device
\* line 112: self._last_hidden_states = None
\* (faulty variant: the stored states are kept)
AfterWeights_Keep(h) == h
AfterWeights(h) == NoHidden

\* a call as ptrace records it: how it ended, which forward call's hidden
\* states it used, and whether hidden states were stored when it ended
PCall(op, outcome, error, mask_device, used, after) ==
    [op |-> op, outcome |-> outcome, error |-> error, mask_device |-> mask_device,
     used |-> used, stored_after |-> ~IsNone(after)]

\* lines 78-82: the wrapper after __init__, on some device
InitProtocol ==
    /\ last_hidden_states = NoHidden
    /\ wdevice \in Devices
    /\ ptrace = <<>>
    /\ RolloutUnused
    /\ LocalUnused
    /\ WrapperUnused
    /\ SnapshotUnused

\* lines 84-100, forward(input_ids, position_ids, **kwargs): the wrapped
\* model raises, or its last hidden states are stored and outputs returned
Forward(model_raises) ==
    /\ Len(ptrace) < MaxOps
    /\ IF model_raises
       THEN /\ UNCHANGED last_hidden_states
            /\ ptrace' = Append(ptrace, PCall("forward", "raised", "model's error", "none", 0,
                                              last_hidden_states))
       ELSE LET h == HiddenOf(Len(ptrace) + 1, wdevice)
            IN /\ last_hidden_states' = h
               /\ ptrace' = Append(ptrace, PCall("forward", "returned", "none", "none", 0, h))
    /\ UNCHANGED <<wdevice, rolloutVars, localVars, wrapperVars, snapVars>>

\* lines 102-114, get_attribution_weights(loss_mask) with loss_mask on the
\* device mask_device
GetAttributionWeights(mask_device) ==
    /\ Len(ptrace) < MaxOps
    /\ IF IsNone(last_hidden_states)
       THEN /\ UNCHANGED last_hidden_states
            /\ ptrace' = Append(ptrace, PCall("get_attribution_weights", "raised",
                                              "RuntimeError: Must call forward()",
                                              mask_device, 0, last_hidden_states))
       ELSE LET hidden_states == HiddenTo(last_hidden_states, mask_device)
            IN IF HeadRaises(hidden_states, wdevice)
               THEN /\ UNCHANGED last_hidden_states
                    /\ ptrace' = Append(ptrace, PCall("get_attribution_weights", "raised",
                                                      "RuntimeError: devices", mask_device, 0,
                                                      last_hidden_states))
               ELSE /\ last_hidden_states' = AfterWeights(last_hidden_states)
                    /\ ptrace' = Append(ptrace, PCall("get_attribution_weights", "returned",
                                                      "none", mask_device,
                                                      hidden_states.forward,
                                                      AfterWeights(last_hidden_states)))
    /\ UNCHANGED <<wdevice, rolloutVars, localVars, wrapperVars, snapVars>>

NextProtocol ==
    \/ \E model_raises \in BOOLEAN : Forward(model_raises)
    \/ \E mask_device \in Devices : GetAttributionWeights(mask_device)

SpecProtocol == InitProtocol /\ [][NextProtocol]_vars


(* ======================= properties of Spec =========================== *)
HasEvent(L, e) == \E i \in 1 .. Len(L) : L[i] = e
Pos(L, e) == CHOOSE i \in 1 .. Len(L) : L[i] = e
Occurrences(L, e) == Cardinality({i \in 1 .. Len(L) : L[i] = e})
Before(L, a, b) == HasEvent(L, a) /\ HasEvent(L, b) /\ Pos(L, a) < Pos(L, b)
ActiveRanks == {r \in Ranks : r < world}
\* the calls rank r has entered
Entered(r) == 1 .. callNo[r]
\* the keys the call retains, and those of them that hold a DTensor
Retained(r, n) == frame[r][n].state_dict
ShardedKeys(r, n) ==
    SelectSeq([i \in 1 .. Len(Retained(r, n)) |->
                  IF IsDTensor(Retained(r, n)[i][2]) THEN Retained(r, n)[i][1] ELSE <<>>],
              LAMBDA k : k # <<>>)
\* model.safetensors of directory d is completely written
Complete(d) == primary[d].status = "complete" /\ primary[d].writers = {}

\* C1: in every reachable state, a directory that holds the file stable
\* holds a completely written model.safetensors: no write of it is in
\* progress and none was left truncated.
C1_MarkerImpliesComplete ==
    \A d \in Dirs : stable[d] => Complete(d)

\* C2: within one call, each retained DTensor is cast before its gather is
\* invoked, gathered before it is inserted into cpu_state; every insertion
\* precedes the start of the write of model.safetensors, and that write is
\* complete before stable is touched.
C2_EventOrder ==
    \A r \in ActiveRanks : \A n \in Entered(r) :
        LET L == log[r][n]
            path == Args(n).path
        IN /\ \A i \in 1 .. Len(Retained(r, n)) :
                LET key == Retained(r, n)[i][1]
                    sharded == IsDTensor(Retained(r, n)[i][2])
                IN /\ HasEvent(L, <<"gather", key>>) =>
                        /\ sharded
                        /\ Before(L, <<"cast", key>>, <<"gather", key>>)
                   /\ HasEvent(L, <<"gathered", key>>) =>
                        Before(L, <<"gather", key>>, <<"gathered", key>>)
                   /\ HasEvent(L, <<"insert", key>>) /\ sharded =>
                        Before(L, <<"gathered", key>>, <<"insert", key>>)
                   /\ HasEvent(L, <<"write_begin", path>>) =>
                        Before(L, <<"insert", key>>, <<"write_begin", path>>)
                   /\ Occurrences(L, <<"insert", key>>) <= 1
                   /\ Occurrences(L, <<"gather", key>>) <= 1
           /\ HasEvent(L, <<"write_end", path>>) =>
                Before(L, <<"write_begin", path>>, <<"write_end", path>>)
           /\ HasEvent(L, <<"touch", path>>) =>
                Before(L, <<"write_end", path>>, <<"touch", path>>)
           \* the tensor whose gather is invoked is the cast DTensor
           /\ (n = Cur(r) /\ pc[r] = "gather") =>
                /\ IsDTensor(frame[r][n].value)
                /\ frame[r][n].value.dtype = Args(n).dtype

\* C2 witness: a call of rank 0 on two DTensors has cast, gathered and
\* inserted both, written the file and touched the marker.
C2_Witness ==
    \E n \in Entered(0) :
        /\ Len(ShardedKeys(0, n)) >= 2
        /\ HasEvent(log[0][n], <<"touch", Args(n).path>>)
        /\ world > 1

\* C3: a call whose save_file did not return (it raised, or has not
\* finished) has not touched stable, on the caller's path or on the thread.
C3_NoMarkerWithoutWrite ==
    \A r \in ActiveRanks : \A n \in Entered(r) :
        LET touched == HasEvent(log[r][n], <<"touch", Args(n).path>>)
        IN /\ touched => /\ HasEvent(log[r][n], <<"write_end", Args(n).path>>)
                         /\ ~HasEvent(log[r][n], <<"IOError">>)
           /\ sv[r][n] \in {"none", "ready", "writing", "failed"} => ~touched

\* C3 witness: save_file failed part-way on the thread of one call and on
\* the caller's path of the next; the directory of the latter holds a
\* truncated file and no marker.
C3_Witness ==
    \E n1, n2 \in Entered(0) :
        /\ Args(n1).async_save /\ sv[0][n1] = "failed"
        /\ ~Args(n2).async_save /\ sv[0][n2] = "failed" /\ pc[0] = "raised"
        /\ primary[Args(n2).path].status = "partial"
        /\ ~stable[Args(n2).path]


\* the call n of rank r has returned to its caller
Returned(r, n) == frame[r][n].ret # <<>>

\* C4 as claimed: on every rank, a call without async_save returns only
\* after stable exists in the output directory.
C4_SyncReturnAfterMarker_EveryRank ==
    \A r \in ActiveRanks : \A n \in Entered(r) :
        (~Args(n).async_save /\ Returned(r, n)) => stable[Args(n).path]

\* C4 amended: on rank 0, a call without async_save returns only after it
\* has touched stable, which then exists in the output directory.
C4_SyncReturnAfterMarker_RankZero ==
    \A n \in Entered(0) :
        (~Args(n).async_save /\ Returned(0, n)) =>
            /\ stable[Args(n).path]
            /\ Before(log[0][n], <<"touch", Args(n).path>>, <<"return">>)

\* C4 witness: in a job of several ranks, rank 0 has returned from a call
\* without async_save.
C4_Witness ==
    /\ world > 1
    /\ \E n \in Entered(0) : ~Args(n).async_save /\ Returned(0, n) /\ pc[0] = "returned"

\* C5: with async_save the caller never runs _save itself and does not wait
\* for it: once the thread is started the call has returned, whatever the
\* thread has done, and the value returned is path / "model.safetensors",
\* not the marker's path.
C5_AsyncDoesNotWait ==
    \A r \in ActiveRanks : \A n \in Entered(r) :
        Args(n).async_save =>
            /\ (n = Cur(r)) => pc[r] # "save"
            /\ sv[r][n] # "none" => Returned(r, n)
            /\ Returned(r, n) => /\ frame[r][n].ret = PathFile(Args(n).path)
                                 /\ frame[r][n].ret # StableFile(Args(n).path)
            /\ HasEvent(log[r][n], <<"write_begin", Args(n).path>>) =>
                  Before(log[r][n], <<"return">>, <<"write_begin", Args(n).path>>)

\* C5 witness: an async call of rank 0 has returned while its thread has
\* written nothing: neither model.safetensors nor stable exists.
C5_Witness ==
    \E n \in Entered(0) :
        /\ Args(n).async_save /\ Returned(0, n) /\ sv[0][n] = "ready"
        /\ primary[Args(n).path].status = "absent"
        /\ ~stable[Args(n).path]

\* C6: a rank other than 0 performs no file-system write in
\* save_ckpt_for_rollout: it creates neither the output directory nor
\* model.safetensors nor stable.
C6_OnlyRankZeroWrites ==
    \A r \in ActiveRanks \ {0} : \A n \in Entered(r) : \A d \in Dirs :
        /\ ~HasEvent(log[r][n], <<"mkdir", d>>)
        /\ ~HasEvent(log[r][n], <<"write_begin", d>>)
        /\ ~HasEvent(log[r][n], <<"touch", d>>)

\* the keys whose gather the call has invoked, in order
GatherSeq(L) ==
    LET g == SelectSeq(L, LAMBDA e : e[1] = "gather")
    IN [i \in 1 .. Len(g) |-> g[i][2]]

\* C7: every rank invokes the gather once for every retained DTensor, in
\* the same key order, so that no rank is left waiting in a gather: a rank
\* that is inside full_tensor() is never in a state where nothing can move.
C7_EveryRankGathers ==
    \A r \in ActiveRanks :
        /\ \A n \in Entered(r) : Returned(r, n) => GatherSeq(log[r][n]) = ShardedKeys(r, n)
        /\ pc[r] = "gather" => ENABLED Next


\* the directories whose model.safetensors is whole, and its keys
Written == {d \in Dirs : primary[d].status = "complete"}
WrittenKeys(d) == DictKeys(primary[d].content)

\* C8 as claimed: for an AttributionWrapper the keys written are exactly the
\* base model's keys and none of them begins with "attribution_head.", for
\* every set of state keys; for any other model they are the state's keys.
C8_KeyFiltering_NoHeadPrefix ==
    \A d \in Written :
        IF model.composite
        THEN /\ WrittenKeys(d) = DictKeys(model.base)
             /\ \A k \in WrittenKeys(d) : ~StartsWith(k, HeadPrefix)
        ELSE WrittenKeys(d) = DictKeys(StateDictOf(model))

\* C8 amended: for an AttributionWrapper the keys written are exactly the
\* base model's keys, each with the base model's tensor of that name, so no
\* tensor of the attribution head is written and a key that begins with
\* "attribution_head." is written only when the base model itself has a
\* tensor of that name; for any other model they are the state's keys.
C8_KeyFiltering ==
    \A d \in Written :
        /\ \A i \in 1 .. Len(primary[d].content) :
              primary[d].content[i][2].name = primary[d].content[i][1]
        /\ IF model.composite
           THEN /\ WrittenKeys(d) = DictKeys(model.base)
                /\ \A k \in WrittenKeys(d) :
                      StartsWith(k, HeadPrefix) => k \in DictKeys(model.base)
                /\ HeadPrefix \o S_projection_weight \notin WrittenKeys(d)
           ELSE WrittenKeys(d) = DictKeys(StateDictOf(model))

\* C8 witness: the file written for an AttributionWrapper whose base model
\* names a tensor "attribution_head.w" holds that key.
C8_Witness ==
    \E d \in Written :
        /\ model.composite
        /\ HeadPrefix \o S_w \in WrittenKeys(d)

\* the entries of cpu_state are the retained keys, each a full tensor in
\* host memory whose dtype is given by dtypeOf
HostCopies(r, n, dtypeOf(_)) ==
    LET cpu_state == frame[r][n].cpu_state
    IN /\ Len(cpu_state) = Len(Retained(r, n))
       /\ \A i \in 1 .. Len(cpu_state) :
             /\ cpu_state[i][1] = Retained(r, n)[i][1]
             /\ cpu_state[i][2].name = Retained(r, n)[i][2].name
             /\ cpu_state[i][2].device = "cpu"
             /\ cpu_state[i][2].kind = "Tensor"
             /\ cpu_state[i][2].dtype = dtypeOf(i)

\* C9 as claimed: cpu_state stays empty on every rank other than 0; on
\* rank 0 it holds, when persistence starts, one entry per retained key,
\* the gathered tensor downcast to dtype.
C9_HostCopiesOnRankZero_AllDowncast ==
    \A r \in ActiveRanks : \A n \in Entered(r) :
        /\ r # 0 => frame[r][n].cpu_state = <<>>
        /\ (r = 0 /\ sv[r][n] # "none") =>
              HostCopies(r, n, LAMBDA i : Args(n).dtype)

\* C9 amended: cpu_state stays empty on every rank other than 0; on rank 0
\* it holds, when persistence starts, one entry per retained key: the
\* gathered tensor downcast to dtype for a key that held a DTensor, and the
\* host copy in its own dtype for any other key.
C9_HostCopiesOnRankZero ==
    \A r \in ActiveRanks : \A n \in Entered(r) :
        /\ r # 0 => frame[r][n].cpu_state = <<>>
        /\ (r = 0 /\ sv[r][n] # "none") =>
              HostCopies(r, n, LAMBDA i : IF IsDTensor(Retained(r, n)[i][2])
                                          THEN Args(n).dtype
                                          ELSE Retained(r, n)[i][2].dtype)

\* C9 witness: in a job of several ranks, rank 0 starts persistence with a
\* DTensor and a plain tensor retained, and another rank has returned.
C9_Witness ==
    /\ world > 1
    /\ \E n \in Entered(0) :
          /\ sv[0][n] # "none"
          /\ \E i, j \in 1 .. Len(Retained(0, n)) :
                IsDTensor(Retained(0, n)[i][2]) /\ ~IsDTensor(Retained(0, n)[j][2])
          /\ \E r \in ActiveRanks \ {0} : Returned(r, n)


(* ===================== properties of SpecLocal ======================== *)
\* C10: processes of pairwise distinct ranks that save under the same root
\* path never write the same file, and the save of rank R never creates or
\* modifies the file a different rank R' reads on load.
C10_RankIsolation ==
    /\ \A f \in LocalFiles : Cardinality(lwrites[f]) <= 1
    /\ \A p, q \in Procs : \A st \in Steps :
          WorldRank(p) # WorldRank(q) => WorldRank(p) \notin lwrites[LoadFileOf(q, st)]

\* the load call of process p has returned without raising
LoadReturned(p) == InJob(p) /\ lcall[p].op = "load" /\ lcall[p].outcome = "ok"
\* the step in which process p enters load_checkpoint_fsdp_state
LoadEntered(p) == lpc[p] = "idle" /\ lpc'[p] # "idle" /\ lcall'[p].op = "load"
\* the call of process p that raised was a save
SaveFailed(p) == InJob(p) /\ lpc[p] = "raised" /\ lcall[p].op = "none"

\* C11: a load that returns after reading the record this rank's own save
\* wrote, into objects with as many optimizers as were saved, leaves the
\* model, every optimizer, the scheduler and the three TrainingProgress
\* fields equal to the values that were saved.
C11_RoundTrip ==
    \A p \in Procs :
        (/\ LoadReturned(p)
         /\ lcall[p].state.rank = WorldRank(p)
         /\ Len(lcall[p].state.saved.objs.optimizers) = Len(objs[p].optimizers))
        => /\ objs[p] = lcall[p].state.saved.objs
           /\ progress[p] = lcall[p].state.saved.progress

\* C11 witness: after a restart, fresh objects (an AttributionWrapper and
\* MaxOpts optimizers) have been loaded from a checkpoint an earlier run
\* saved after training.
C11_Witness ==
    \E p \in Procs :
        /\ LoadReturned(p)
        /\ lcall[p].state.rank = WorldRank(p)
        /\ lcall[p].state.run < run[p]
        /\ lcall[p].state.saved.progress.step > 0
        /\ objs[p].model.composite
        /\ Len(objs[p].optimizers) = MaxOpts
        /\ Len(lcall[p].state.saved.objs.optimizers) = MaxOpts

\* C12: a load that names a step directory without this process's file
\* raises FileNotFoundError in its first step, and that step leaves the
\* model, the optimizers, the scheduler and the TrainingProgress unchanged.
C12_NotFoundIsAnError ==
    [][\A p \in Procs :
          (LoadEntered(p) /\ lfiles[LoadFileOf(p, lcall'[p].step)].status = "absent")
          => /\ lcall'[p].outcome = "FileNotFoundError"
             /\ lpc'[p] = "raised"
             /\ objs'[p] = objs[p]
             /\ progress'[p] = progress[p]]_vars

\* C12 witness: a process that has trained raised FileNotFoundError.
C12_Witness ==
    \E p \in Procs :
        /\ InJob(p)
        /\ lcall[p].op = "load"
        /\ lcall[p].outcome = "FileNotFoundError"
        /\ lpc[p] = "raised"
        /\ progress[p].step > 0

\* C13: when save_checkpoint_fsdp_state has raised and nobody else is
\* writing the file, the file of this (step, rank) is either absent or
\* whole: no truncated file is left behind.
C13_NoPartialFileAfterFailure ==
    \A p \in Procs :
        SaveFailed(p) =>
            LET f == lfiles[SaveFileOf(p, progress[p].step)]
            IN f.writers = {} => f.status \in {"absent", "complete"}


(* ================== further properties of Spec ======================== *)
\* the background thread of call n on rank r has been started and has not
\* finished
ThreadRunning(r, n) ==
    Args(n).async_save /\ sv[r][n] \in {"ready", "writing", "written"}
\* the background thread of call n on rank r ended with an exception
ThreadFailed(r, n) == Args(n).async_save /\ sv[r][n] = "failed"
\* what the caller on rank r holds of the thread of call n: the value the
\* call returned, or the module variable async_ckpt_job
HoldsHandle(r, n) ==
    \/ frame[r][n].ret = Thread(r, n)
    \/ async_ckpt_job[r] = Thread(r, n)

\* C14: when the background thread of an asynchronous call has ended with an
\* exception, the caller holds a handle of that thread (returned by the call
\* or left in async_ckpt_job) through which the failure can be read, or the
\* exception reached the caller.
C14_BackgroundFailureVisible ==
    \A r \in ActiveRanks : \A n \in Entered(r) :
        ThreadFailed(r, n) => (HoldsHandle(r, n) \/ (Cur(r) = n /\ pc[r] = "raised"))

\* C15: no two background threads started by calls that name the same
\* output directory are running at the same time.
C15_OneJobPerDirectory ==
    \A r \in ActiveRanks : \A n1, n2 \in Entered(r) :
        (n1 # n2 /\ Args(n1).path = Args(n2).path)
        => ~(ThreadRunning(r, n1) /\ ThreadRunning(r, n2))


(* ==================== properties of SpecWrapper ======================= *)
SeqToSet(q) == {q[i] : i \in 1 .. Len(q)}
\* the keys of the live wrapper, as its state_dict names them
LiveKeys == DictKeys(Wrapper_state_dict(wrapper))
SuppliedKeys == DictKeys(wargs.state_dict)
\* the supplied keys as load_state_dict routes them: to the wrapped model
\* (prefix "model." removed, or no prefix at all) and to the head
RoutedToModel ==
    {DropChars(k, ModelPrefixLen) : k \in {x \in SuppliedKeys : StartsWith(x, ModelPrefix)}}
    \cup {k \in SuppliedKeys : ~StartsWith(k, ModelPrefix) /\ ~StartsWith(k, HeadPrefix)}
RoutedToHead ==
    {DropChars(k, HeadPrefixLen) :
        k \in {x \in SuppliedKeys : ~StartsWith(x, ModelPrefix) /\ StartsWith(x, HeadPrefix)}}
HeadConsulted == RoutedToHead # {}
MissingKeys ==
    (DictKeys(wrapper.base) \ RoutedToModel)
    \cup (IF HeadConsulted THEN DictKeys(wrapper.head) \ RoutedToHead ELSE {})
UnexpectedKeys ==
    (RoutedToModel \ DictKeys(wrapper.base))
    \cup (IF HeadConsulted THEN RoutedToHead \ DictKeys(wrapper.head) ELSE {})

\* C16 as claimed: a strict load raises whenever the supplied mapping has a
\* key the live wrapper lacks or the live wrapper (wrapped model or head)
\* has a key the mapping lacks; a non-strict load returns the two lists.
C16_StrictRaisesOnAnyMismatch ==
    wpc # "ready" =>
        /\ (wargs.strict /\ SuppliedKeys # LiveKeys) => wpc = "raised"
        /\ ~wargs.strict => wpc = "returned"

\* C16 as amended: a strict load raises exactly when, after routing, the
\* wrapped model misses a key or is given a key it lacks, or the head does
\* while at least one key under "attribution_head." is supplied; a
\* non-strict load never raises and returns exactly those two lists.
C16_StrictRaisesOnRoutedMismatch ==
    wpc # "ready" =>
        /\ wargs.strict => (wpc = "raised" <=> (MissingKeys # {} \/ UnexpectedKeys # {}))
        /\ ~wargs.strict => wpc = "returned"
        /\ wpc = "returned" =>
              /\ SeqToSet(wout[1]) = MissingKeys
              /\ SeqToSet(wout[2]) = UnexpectedKeys

\* C16 witness: a strict load was given a key under "attribution_head." that
\* the head lacks, and raised.
C16_Witness ==
    /\ wpc = "raised"
    /\ wargs.strict
    /\ HeadConsulted
    /\ RoutedToHead \ DictKeys(wrapper.head) # {}
    /\ RoutedToModel = DictKeys(wrapper.base)


(* =================== properties of SpecResume ========================= *)
\* no field of the TrainingProgress of process p is lowered by the step
NonDecreasing(p) ==
    /\ progress'[p].total_tokens >= progress[p].total_tokens
    /\ progress'[p].step >= progress[p].step
    /\ progress'[p].total_samples >= progress[p].total_samples
\* the step assigns the TrainingProgress fields from a record that process p
\* itself wrote in its current run
RestoresOwnRecord(p) ==
    lpc[p] = "load_progress" =>
        (lcall[p].state.rank = WorldRank(p) /\ lcall[p].state.run = run[p])

\* C17 as claimed: within a run, no training step, save or load of a
\* checkpoint written in that run lowers total_tokens, step or
\* total_samples.
C17_ProgressNeverDecreases ==
    [][\A p \in Procs :
          (run'[p] = run[p] /\ RestoresOwnRecord(p)) => NonDecreasing(p)]_vars

\* C17 as amended: within a run, the only step that lowers a field is the
\* assignment of the three fields by a load, which sets them to those of
\* the loaded record, a record saved at an earlier step than the caller's
\* current one.
C17_ProgressLoweredOnlyByLoad ==
    [][\A p \in Procs :
          run'[p] = run[p] =>
              \/ NonDecreasing(p)
              \/ /\ lpc[p] = "load_progress"
                 /\ progress'[p] = lcall[p].state.training_progress
                 /\ lcall[p].state.training_progress.step < progress[p].step]_vars

\* C17 witness: a load has returned with the progress of a record of this
\* run, while a later checkpoint of the same run is on disk.
C17_Witness ==
    \E p \in Procs : \E st \in Steps :
        /\ LoadReturned(p)
        /\ lcall[p].state.run = run[p]
        /\ progress[p] = lcall[p].state.training_progress
        /\ LET f == lfiles[SaveFileOf(p, st)]
           IN /\ f.status = "complete"
              /\ f.content.run = run[p]
              /\ f.content.training_progress.step > progress[p].step

\* C18: whenever a load has returned, the model, every optimizer supplied,
\* the scheduler and the TrainingProgress are those of the loaded record,
\* and the record holds exactly one state per optimizer supplied.
C18_LoadReflectsRecord ==
    \A p \in Procs :
        LoadReturned(p) =>
            LET state == lcall[p].state
            IN /\ Len(objs[p].optimizers) = Len(state.optimizers)
               /\ Model_state_dict(objs[p].model) = state.model
               /\ \A i \in 1 .. Len(objs[p].optimizers) :
                     i <= Len(state.optimizers) =>
                         Optimizer_state_dict(objs[p].optimizers[i]) = state.optimizers[i]
               /\ Scheduler_state_dict(objs[p].scheduler) = state.scheduler
               /\ progress[p] = state.training_progress


(* ============== properties of Spec: the key mapping =================== *)
\* the keys of the full state that the filter retains
RetainedOriginals ==
    IF model.composite
    THEN {k \in DictKeys(StateDictOf(model)) :
             StartsWith(k, ModelPrefix) \/ ~StartsWith(k, HeadPrefix)}
    ELSE DictKeys(StateDictOf(model))

\* C19: in every call, original_key_mapping is a bijection between the
\* retained keys of the full state and the keys of the output: it has one
\* entry per output key, no two entries share an output key or an original
\* key, every original key is a key of the full state whose value is the
\* value kept under the output key, the original keys are exactly the
\* retained ones, and for a model that is not an AttributionWrapper every
\* key maps to itself.
C19_KeyMappingBijective ==
    \A r \in ActiveRanks : \A n \in Entered(r) :
        LET full == StateDictOf(model)
            kept == frame[r][n].state_dict
            map == frame[r][n].original_key_mapping
        IN /\ Len(map) = Len(kept)
           /\ \A i \in 1 .. Len(map) : map[i][1] = kept[i][1]
           /\ \A i, j \in 1 .. Len(map) :
                 i # j => (map[i][1] # map[j][1] /\ map[i][2] # map[j][2])
           /\ \A i \in 1 .. Len(map) :
                 /\ Cardinality({k \in 1 .. Len(full) : full[k][1] = map[i][2]}) = 1
                 /\ kept[i][2] = DictGet(full, map[i][2])
           /\ {map[i][2] : i \in 1 .. Len(map)} = RetainedOriginals
           /\ ~model.composite => \A i \in 1 .. Len(map) : map[i][1] = map[i][2]

\* C19 witness: a call on an AttributionWrapper whose base model has the
\* tensors "w" and "model.w" has built its mapping ("model.w" -> "w",
\* "model.model.w" -> "model.w").
C19_Witness ==
    \E r \in ActiveRanks : \E n \in Entered(r) :
        LET map == frame[r][n].original_key_mapping
        IN /\ model.composite
           /\ Len(map) >= 2
           /\ \E i, j \in 1 .. Len(map) :
                 /\ map[i][1] = S_w /\ map[i][2] = ModelPrefix \o S_w
                 /\ map[j][1] = ModelPrefix \o S_w
                 /\ map[j][2] = ModelPrefix \o ModelPrefix \o S_w


(* ============== properties of Spec: an aborted gather ================= *)
\* a step of the caller on rank r
RankStep(r) == Enter(r) \/ LoopNext(r) \/ GatherDone(r) \/ Dispatch(r)
\* rank r waits in a gather that rank q, whose call has raised, never joins
WaitsForAborted(r, q) ==
    /\ q # r
    /\ pc[q] = "raised"
    /\ pc[r] = "gather"
    /\ arrived[q] < arrived[r]

\* C20: a rank that waits in a gather which an aborted rank will never join
\* is not stuck: its call can take a step that ends the wait (with a fatal
\* error).
C20_AbortedGatherEnds ==
    \A r, q \in ActiveRanks : WaitsForAborted(r, q) => ENABLED RankStep(r)


(* ============ properties of Spec: the module variable ================= *)
\* the asynchronous calls of rank r that have returned
AsyncReturned(r) == {n \in Entered(r) : Args(n).async_save /\ Returned(r, n)}

\* C21: once an asynchronous call has returned on a rank, the module
\* variable async_ckpt_job of that process is the thread started by the most
\* recent such call.
C21_ModuleVariableHoldsJob ==
    \A r \in ActiveRanks :
        AsyncReturned(r) # {} =>
            LET last == CHOOSE n \in AsyncReturned(r) : \A k \in AsyncReturned(r) : k <= n
            IN async_ckpt_job[r] = Thread(r, last)

(* ==================== properties of SpecSnapshot ====================== *)
\* C22: what the thread wrote to model.safetensors is, for every key, the
\* values the parameter had when save_ckpt_for_rollout was called, whatever
\* the caller did to the parameters after the call returned.
C22_WritesValuesOfCallTime ==
    scall.pc = "written" =>
        \A i \in SnapshotKeys : sfile[i] = [defined |-> TRUE, data |-> scall.at_call[i]]

(* ===================== properties of SpecRestore ====================== *)
\* process p takes a step of a load call that begins at position from
LoadStepFrom(p, from) == lpc[p] = from /\ lpc'[p] # from /\ lcall'[p].op = "load"
\* the record's model has other keys than the live model accepts
ModelKeysMismatch(m, state_dict) ==
    IF m.composite
    THEN LET r == AttributionWrapper_load_state_dict(m, state_dict, FALSE)
         IN r.missing_keys # <<>> \/ r.unexpected_keys # <<>>
    ELSE DictKeys(state_dict) # DictKeys(m.base)
\* a pair of the zip has parameter groups of different sizes
OptimizerMismatch(optimizers, states) ==
    \E i \in 1 .. Len(optimizers) :
        i <= Len(states) /\ optimizers[i].param_groups # states[i].param_groups

\* C23: load_checkpoint_fsdp_state restores the model, then the optimizers
\* in list order, then the TrainingProgress fields, then the scheduler, each
\* stage touching only its own object; no step up to the end of the
\* optimizers' stage changes the caller's TrainingProgress or the scheduler,
\* so a load that raises there leaves both as they were; and a file that is
\* not a whole record, a model whose keys do not match and an optimizer whose
\* groups do not match each end the call with a raised error, a normal return
\* being possible only from the scheduler's stage.
C23_RestoreOrderAndFrame ==
    [][\A p \in Procs :
        /\ (LoadStepFrom(p, "idle") \/ LoadStepFrom(p, "load_model")
                \/ LoadStepFrom(p, "load_optimizers"))
           => progress'[p] = progress[p] /\ objs'[p].scheduler = objs[p].scheduler
        /\ LoadStepFrom(p, "idle")
           => /\ objs'[p] = objs[p]
              /\ lpc'[p] \in {"load_model", "raised"}
              /\ (lpc'[p] = "load_model") = (lfiles[LoadFileOf(p, lcall'[p].step)].status = "complete")
        /\ LoadStepFrom(p, "load_model")
           => /\ objs'[p].optimizers = objs[p].optimizers
              /\ lpc'[p] \in {"load_optimizers", "raised"}
              /\ (lpc'[p] = "raised") = ModelKeysMismatch(objs[p].model, lcall[p].state.model)
        /\ LoadStepFrom(p, "load_optimizers")
           => /\ objs'[p].model = objs[p].model
              /\ lpc'[p] \in {"load_progress", "raised"}
              /\ (lpc'[p] = "raised") =
                     OptimizerMismatch(objs[p].optimizers, lcall[p].state.optimizers)
              /\ \A i \in 1 .. Len(objs[p].optimizers) :
                    objs'[p].optimizers[i] # objs[p].optimizers[i] =>
                        \A k \in 1 .. i :
                            Optimizer_state_dict(objs'[p].optimizers[k])
                                = lcall[p].state.optimizers[k]
        /\ LoadStepFrom(p, "load_progress")
           => /\ objs'[p] = objs[p]
              /\ progress'[p] = lcall[p].state.training_progress
              /\ lpc'[p] = "load_scheduler"
        /\ LoadStepFrom(p, "load_scheduler")
           => /\ objs'[p].model = objs[p].model
              /\ objs'[p].optimizers = objs[p].optimizers
              /\ progress'[p] = progress[p]
              /\ Scheduler_state_dict(objs'[p].scheduler) = lcall[p].state.scheduler
        /\ (lcall'[p].op = "load" /\ lcall'[p].outcome = "ok" /\ lcall[p].outcome # "ok")
           => lpc[p] = "load_scheduler"
        /\ (lpc'[p] = "raised" /\ lpc[p] # "raised" /\ lcall'[p].op = "load")
           => lcall'[p].outcome \in {"FileNotFoundError", "UnpicklingError",
                                     "RuntimeError", "ValueError"}
      ]_vars
\* a load has raised in the optimizers' stage: the model holds the record's
\* values, the first optimizer's group did not match, and the caller's
\* TrainingProgress and scheduler are those of before the call, which differ
\* from the record's
C23_Witness ==
    \E p \in Procs :
        /\ lpc[p] = "raised"
        /\ lcall[p].op = "load"
        /\ lcall[p].outcome = "ValueError"
        /\ \E i \in 1 .. Len(objs[p].model.base) : objs[p].model.base[i][2] > 0
        /\ progress[p] = TrainingProgress(0, 0, 0)
        /\ objs[p].scheduler.last_epoch = 0
        /\ lcall[p].state.training_progress.step > 0
        /\ lcall[p].state.scheduler.last_epoch > 0

(* ============ properties of SpecWrapper: the round trip =============== *)
\* C24: state_dict() of the wrapper holds exactly the wrapped model's keys
\* under "model." and the head's keys under "attribution_head.", each with
\* its tensor; and a strict load_state_dict of what state_dict() returned (of
\* this wrapper, or of a wrapper of the same architecture holding other
\* values) returns two empty lists and leaves the wrapped model and the head
\* holding exactly the values of that state_dict, so that loading the
\* wrapper's own state_dict leaves it unchanged.
C24_StateDictRoundTrip ==
    LET sd == Wrapper_state_dict(wrapper)
    IN /\ Len(sd) = Len(wrapper.base) + Len(wrapper.head)
       /\ \A i \in 1 .. Len(wrapper.base) :
             /\ DictHas(sd, ModelPrefix \o wrapper.base[i][1])
             /\ DictGet(sd, ModelPrefix \o wrapper.base[i][1]) = wrapper.base[i][2]
       /\ \A i \in 1 .. Len(wrapper.head) :
             /\ DictHas(sd, HeadPrefix \o wrapper.head[i][1])
             /\ DictGet(sd, HeadPrefix \o wrapper.head[i][1]) = wrapper.head[i][2]
       /\ \A v \in {"old", "new"} :
             (wpc # "ready" /\ wargs.strict
                /\ wargs.state_dict = Wrapper_state_dict(Valued(wrapper, v)))
             => /\ wpc = "returned"
                /\ wout = << <<>>, <<>> >>
                /\ wrapper = Valued(wrapper, v)
\* the wrapper's own state_dict, with a wrapped model that has a tensor
\* named "model.w" itself, was loaded strictly and the call returned
C24_Witness ==
    /\ wpc = "returned"
    /\ wargs.strict
    /\ wargs.state_dict = Wrapper_state_dict(Valued(wrapper, "old"))
    /\ wrapper = Valued(wrapper, "old")
    /\ DictHas(wrapper.base, ModelPrefix \o S_w)

(* ==================== properties of SpecProtocol ====================== *)
\* call i of ptrace is a forward call that completed
ForwardCompleted(i) == ptrace[i].op = "forward" /\ ptrace[i].outcome = "returned"
IsGet(i) == ptrace[i].op = "get_attribution_weights"
GetSucceeded(i) == IsGet(i) /\ ptrace[i].outcome = "returned"
\* before call i, the forward calls that completed after the last successful
\* get_attribution_weights (after construction if there was none)
ForwardsSince(i) ==
    {j \in 1 .. (i - 1) : ForwardCompleted(j) /\ \A k \in (j + 1) .. (i - 1) : ~GetSucceeded(k)}
RaisedRuntimeError(i) ==
    ptrace[i].outcome = "raised"
        /\ ptrace[i].error \in {"RuntimeError: Must call forward()", "RuntimeError: devices"}

\* C25 (as stated): a get_attribution_weights call succeeds exactly when a
\* forward call has completed since construction and since the last
\* successful get_attribution_weights; otherwise it raises RuntimeError and
\* leaves no hidden states stored; a successful call leaves none stored.
C25_GetSucceedsIffForwardSince ==
    \A i \in 1 .. Len(ptrace) :
        IsGet(i) =>
            /\ GetSucceeded(i) = (ForwardsSince(i) # {})
            /\ ~GetSucceeded(i) => RaisedRuntimeError(i) /\ ~ptrace[i].stored_after
            /\ GetSucceeded(i) => ~ptrace[i].stored_after

\* C25 (amended): a get_attribution_weights call made when no forward call
\* has completed since construction and since the last successful
\* get_attribution_weights raises RuntimeError (must call forward) and leaves
\* no hidden states stored; one made after such a forward call with a mask on
\* the head's device returns the weights of the most recent completed
\* forward call and clears the stored states; one made after such a forward
\* call with a mask on another device raises from the head's computation and
\* leaves the hidden states stored.  The stored states are empty exactly
\* when the next get_attribution_weights has no such forward call before it.
C25_GetFollowsStoredStates ==
    /\ \A i \in 1 .. Len(ptrace) :
          IsGet(i) =>
              IF ForwardsSince(i) = {}
              THEN /\ ptrace[i].outcome = "raised"
                   /\ ptrace[i].error = "RuntimeError: Must call forward()"
                   /\ ~ptrace[i].stored_after
              ELSE IF ptrace[i].mask_device = wdevice
              THEN /\ GetSucceeded(i)
                   /\ ptrace[i].used \in ForwardsSince(i)
                   /\ \A j \in ForwardsSince(i) : j <= ptrace[i].used
                   /\ ~ptrace[i].stored_after
              ELSE /\ ptrace[i].outcome = "raised"
                   /\ ptrace[i].error = "RuntimeError: devices"
                   /\ ptrace[i].stored_after
    /\ IsNone(last_hidden_states) = (ForwardsSince(Len(ptrace) + 1) = {})
\* a forward call completed, a get_attribution_weights call with a mask on
\* the head's device returned and the next get_attribution_weights raised
\* because nothing was stored
C25_Witness ==
    \E i, j, k \in 1 .. Len(ptrace) :
        /\ i < j /\ j < k
        /\ ForwardCompleted(i)
        /\ GetSucceeded(j) /\ ptrace[j].used = i
        /\ IsGet(k) /\ ForwardsSince(k) = {}
        /\ ptrace[k].error = "RuntimeError: Must call forward()"
        /\ IsNone(last_hidden_states)

====
